---- MODULE Spec2Model ----
(***************************************************************************)
(* LUFA/Common/CompilerSpecific.h as a state machine.                      *)
(*                                                                         *)
(* The header is a preprocessor program.  Its state is the macro table of  *)
(* the translation unit, the include guard, the diagnostics emitted so far *)
(* and the position of the preprocessor inside the header.  The inputs are *)
(* the build-time facts the header reads: the predefined toolchain signals *)
(* (__GNUC__, __ICCAVR32__, __DOXYGEN__), the value of ARCH, whether       *)
(* <intrinsics.h> can be found, and, at every inclusion, whether           *)
(* __INCLUDE_FROM_COMMON_H is defined.  After the header has been          *)
(* processed the translation unit may invoke the macros it defined.        *)
(***************************************************************************)
EXTENDS Naturals, Sequences, FiniteSets

(* ------------------------------ bounds -------------------------------- *)

\* inclusions of the header in one translation unit
MaxIncludes == 2
\* length of a part name given to the part query
MaxPartLen == 2
\* arguments written in an ISR declaration
MaxISRArgs == 3

(* --------------------------- build-time facts ------------------------- *)

Signals == {"__GNUC__", "__ICCAVR32__", "__DOXYGEN__"}

\* The header compares ARCH with ARCH_AVR, ARCH_XMEGA and ARCH_UC3; their
\* values are set outside this file and are taken to be pairwise distinct.
\* ARCH_OTHER stands for any value of ARCH equal to none of the three.
RecognizedArchs == {"ARCH_AVR", "ARCH_XMEGA", "ARCH_UC3"}
Archs == RecognizedArchs \cup {"ARCH_OTHER"}

PartAlphabet == {"3", "2", "_"}
PartNames == UNION {[1..k -> PartAlphabet] : k \in 1..MaxPartLen}

(* ------------------------------ macro names --------------------------- *)

Primitives ==
  {"IS_COMPILE_CONST", "MEMORY_BARRIER", "FORCE_POINTER_ACCESS",
   "IS_PART_DEFINED", "ISR", "READ_SYS_REGISTER", "WRITE_SYS_REGISTER",
   "CLEAR_STATUS_FLAG", "SET_STATUS_FLAG"}

Prefixes == {"GCC_", "IAR_"}

\* token pasting of a family prefix and a primitive name (PREFIX ## x)
Paste(prefix, x) == prefix \o x

MacroNames ==
  {Paste(f, p) : f \in Prefixes, p \in Primitives}
    \cup {"__COMPILER_SPECIFIC", "__IAR_ISR_PRAGMA"}

Undef == [defined |-> FALSE, params |-> 0, variadic |-> FALSE, body |-> ""]

Macro(n, v, b) == [defined |-> TRUE, params |-> n, variadic |-> v, body |-> b]

Def(name, n, v, b) == [name |-> name, macro |-> Macro(n, v, b)]

EmptyTable == [n \in MacroNames |-> Undef]

(* ------------------- the #define lists of the header ------------------ *)

\* variant: the test of __DOXYGEN__ negated
GccCondition_notDoxygen(sig) == "__GNUC__" \in sig \/ "__DOXYGEN__" \notin sig

\* #if defined(__GNUC__) || defined(__DOXYGEN__)
GccCondition(sig) == "__GNUC__" \in sig \/ "__DOXYGEN__" \in sig

\* variant: the test of __DOXYGEN__ left out
IarCondition_noDoxygen(sig) == "__ICCAVR32__" \in sig

\* #if defined(__ICCAVR32__) || defined(__DOXYGEN__)
IarCondition(sig) == "__ICCAVR32__" \in sig \/ "__DOXYGEN__" \in sig

\* variant: the UC3 branch uses the prefix of the AVR branch
GccPartMacro_samePrefix(arch) ==
  IF arch \in {"ARCH_AVR", "ARCH_XMEGA", "ARCH_UC3"}
    THEN <<Def("GCC_IS_PART_DEFINED", 1, FALSE, "defined(__AVR_ ## x ## __)")>>
    ELSE <<>>

\* #if ((ARCH == ARCH_AVR) || (ARCH == ARCH_XMEGA)) ... #elif (ARCH == ARCH_UC3)
\* ... #endif, with no #else
GccPartMacro(arch) ==
  IF arch = "ARCH_AVR" \/ arch = "ARCH_XMEGA"
    THEN <<Def("GCC_IS_PART_DEFINED", 1, FALSE, "defined(__AVR_ ## x ## __)")>>
    ELSE IF arch = "ARCH_UC3"
      THEN <<Def("GCC_IS_PART_DEFINED", 1, FALSE, "defined(__AVR32_ ## x ## __)")>>
      ELSE <<>>

\* variant: an #else that defines the query as 0
IarPartMacro_withElse(arch) ==
  IF arch = "ARCH_AVR" \/ arch = "ARCH_XMEGA"
    THEN <<Def("IAR_IS_PART_DEFINED", 1, FALSE, "defined(__AT ## x ## __)")>>
    ELSE IF arch = "ARCH_UC3"
      THEN <<Def("IAR_IS_PART_DEFINED", 1, FALSE, "defined(__AT32 ## x ## __)")>>
      ELSE <<Def("IAR_IS_PART_DEFINED", 1, FALSE, "0")>>

IarPartMacro(arch) ==
  IF arch = "ARCH_AVR" \/ arch = "ARCH_XMEGA"
    THEN <<Def("IAR_IS_PART_DEFINED", 1, FALSE, "defined(__AT ## x ## __)")>>
    ELSE IF arch = "ARCH_UC3"
      THEN <<Def("IAR_IS_PART_DEFINED", 1, FALSE, "defined(__AT32 ## x ## __)")>>
      ELSE <<>>

\* #if !defined(__DOXYGEN__)  #define __COMPILER_SPECIFIC(x) GCC_ ## x  #endif
GccSelector(sig) ==
  IF "__DOXYGEN__" \notin sig
    THEN <<Def("__COMPILER_SPECIFIC", 1, FALSE, "GCC_ ## x")>>
    ELSE <<>>

IarSelector(sig) ==
  IF "__DOXYGEN__" \notin sig
    THEN <<Def("__COMPILER_SPECIFIC", 1, FALSE, "IAR_ ## x")>>
    ELSE <<>>

IarIsrPragma(sig) ==
  IF "__DOXYGEN__" \notin sig
    THEN <<Def("__IAR_ISR_PRAGMA", 0, TRUE, "_Pragma(#__VA_ARGS__)")>>
    ELSE <<>>

\* #define GCC_ISR(Name, ...)
GccIsrMacro ==
  <<Def("GCC_ISR", 1, TRUE,
        "void Name (void) __attribute__((__interrupt__)) __VA_ARGS__; void Name (void)")>>

\* variant: the parameter list of the #else branch, (Name, ...)
IarIsrMacro_variadic ==
  <<Def("IAR_ISR", 1, TRUE,
        "__IAR_ISR_PRAGMA(handler = Group, Level) __interrupt void Name (void)")>>

\* #define IAR_ISR(Name, Group, Level)
IarIsrMacro ==
  <<Def("IAR_ISR", 3, FALSE,
        "__IAR_ISR_PRAGMA(handler = Group, Level) __interrupt void Name (void)")>>

\* variant: the fallback answers 1
GccFallbackConstMacro_one ==
  <<Def("GCC_IS_COMPILE_CONST", 1, FALSE, "1")>>

\* #define GCC_IS_COMPILE_CONST(x) 0, in the #else of the GCC branch
GccFallbackConstMacro ==
  <<Def("GCC_IS_COMPILE_CONST", 1, FALSE, "0")>>

\* the #define directives of the recognized GCC branch, in source order
GccRecognizedDefs(sig, arch) ==
  << Def("GCC_FORCE_POINTER_ACCESS", 1, FALSE,
         "__asm__ __volatile__(\"\" : \"=b\" (StructPtr) : \"0\" (StructPtr))"),
     Def("GCC_MEMORY_BARRIER", 0, FALSE,
         "__asm__ __volatile__(\"\" ::: \"memory\");"),
     Def("GCC_IS_COMPILE_CONST", 1, FALSE, "__builtin_constant_p(x)") >>
  \o GccPartMacro(arch) \o GccIsrMacro \o
  << Def("GCC_READ_SYS_REGISTER", 1, FALSE, "__builtin_mfsr(Reg)"),
     Def("GCC_WRITE_SYS_REGISTER", 2, FALSE, "__builtin_mtsr(Reg, Val)"),
     Def("GCC_CLEAR_STATUS_FLAG", 1, FALSE, "__builtin_csrf(Bitmask)"),
     Def("GCC_SET_STATUS_FLAG", 1, FALSE, "__builtin_ssrf(Bitmask)") >>
  \o GccSelector(sig)

\* the #define directives of the #else of the GCC branch
GccFallbackDefs ==
  << Def("GCC_FORCE_POINTER_ACCESS", 1, FALSE, ""),
     Def("GCC_MEMORY_BARRIER", 0, FALSE, "") >>
  \o GccFallbackConstMacro \o
  << Def("GCC_IS_PART_DEFINED", 1, FALSE, "0"),
     Def("GCC_ISR", 1, TRUE, ""),
     Def("GCC_READ_SYS_REGISTER", 1, FALSE, ""),
     Def("GCC_WRITE_SYS_REGISTER", 2, FALSE, ""),
     Def("GCC_CLEAR_STATUS_FLAG", 1, FALSE, ""),
     Def("GCC_SET_STATUS_FLAG", 1, FALSE, "") >>

\* the #define directives of the recognized IAR branch, after <intrinsics.h>
IarRecognizedDefs(sig, arch) ==
  << Def("IAR_MEMORY_BARRIER", 0, FALSE, "__asm(\"\")") >>
  \o IarPartMacro(arch) \o IarIsrPragma(sig) \o IarIsrMacro \o
  << Def("IAR_READ_SYS_REGISTER", 1, FALSE, "__get_system_register(Reg)"),
     Def("IAR_WRITE_SYS_REGISTER", 2, FALSE, "__set_system_register(Reg, Val)"),
     Def("IAR_CLEAR_STATUS_FLAG", 1, FALSE, "__clear_status_flag(Bitmask)"),
     Def("IAR_SET_STATUS_FLAG", 1, FALSE, "__set_status_flag(Bitmask)") >>
  \o IarSelector(sig)

\* the #define directives of the #else of the IAR branch
IarFallbackDefs ==
  << Def("IAR_IS_PART_DEFINED", 1, FALSE, "0"),
     Def("IAR_ISR", 1, TRUE, ""),
     Def("IAR_READ_SYS_REGISTER", 1, FALSE, ""),
     Def("IAR_WRITE_SYS_REGISTER", 2, FALSE, ""),
     Def("IAR_CLEAR_STATUS_FLAG", 1, FALSE, ""),
     Def("IAR_SET_STATUS_FLAG", 1, FALSE, "") >>

GccBranchDefs(sig, arch) ==
  IF GccCondition(sig) THEN GccRecognizedDefs(sig, arch) ELSE GccFallbackDefs

IarBranchDefs(sig, arch) ==
  IF IarCondition(sig) THEN IarRecognizedDefs(sig, arch) ELSE IarFallbackDefs

(* ------------------------- executing #define -------------------------- *)

\* the macro table after the directives of defs have been executed in order;
\* a later definition of a name replaces an earlier one
ApplyDefs(table, defs) ==
  [n \in MacroNames |->
     IF \E i \in DOMAIN defs : defs[i].name = n
       THEN LET last == CHOOSE i \in DOMAIN defs :
                          /\ defs[i].name = n
                          /\ \A j \in DOMAIN defs : defs[j].name = n => j <= i
            IN defs[last].macro
       ELSE table[n]]

\* how many #define directives have been executed for each name
CountDefs(count, defs) ==
  [n \in MacroNames |->
     count[n] + Cardinality({i \in DOMAIN defs : defs[i].name = n})]

\* a #define of a name that is already defined with a different replacement
\* list or parameter list is diagnosed; the names so diagnosed
Redefined(table, defs) ==
  {defs[i].name : i \in {j \in DOMAIN defs :
      /\ table[defs[j].name].defined
      /\ table[defs[j].name] # defs[j].macro}}

(* --------------------------- macro invocation ------------------------- *)

\* the number of arguments written in an invocation matches the parameter
\* list: a fixed list takes exactly its parameters (NAME() gives a single
\* parameter one empty argument), a list ending in ... also takes none for
\* the variable part
ArityOK(m, argc) ==
  \/ (IF m.variadic THEN argc >= m.params ELSE argc = m.params)
  \/ (m.params = 1 /\ argc = 0)

\* the identifier defined(PREFIX ## x ## __) tests, as a sequence of
\* characters; <<>> for a replacement list that names no symbol
PasteSymbol(body, x) ==
  IF body = "defined(__AVR_ ## x ## __)"
    THEN <<"_", "_", "A", "V", "R", "_">> \o x \o <<"_", "_">>
  ELSE IF body = "defined(__AVR32_ ## x ## __)"
    THEN <<"_", "_", "A", "V", "R", "3", "2", "_">> \o x \o <<"_", "_">>
  ELSE IF body = "defined(__AT ## x ## __)"
    THEN <<"_", "_", "A", "T">> \o x \o <<"_", "_">>
  ELSE IF body = "defined(__AT32 ## x ## __)"
    THEN <<"_", "_", "A", "T", "3", "2">> \o x \o <<"_", "_">>
  ELSE <<>>

\* __builtin_constant_p: a literal is always a constant; for any other
\* expression the answer depends on what the optimizer can prove (opt)
BuiltinConstantP(kind, opt) ==
  IF kind = "literal" THEN "true" ELSE IF opt THEN "true" ELSE "false"

\* the truth value the expansion has as a constant-fold query
ConstValue(body, kind, opt) ==
  IF body = "__builtin_constant_p(x)" THEN BuiltinConstantP(kind, opt)
  ELSE IF body = "0" THEN "false"
  ELSE IF body = "1" THEN "true"
  ELSE "none"

\* the function an expansion declares when it is used as an ISR declaration
Declares(body) ==
  IF body = "void Name (void) __attribute__((__interrupt__)) __VA_ARGS__; void Name (void)"
    THEN "void Name (void)"
  ELSE IF body = "__IAR_ISR_PRAGMA(handler = Group, Level) __interrupt void Name (void)"
    THEN "void Name (void)"
  ELSE "none"

NoResult ==
  [status |-> "none", text |-> "", sym |-> <<>>, val |-> "none", decl |-> "none"]

\* the outcome of writing name(args) in the translation unit
Invoke(table, name, argc, x, kind, opt) ==
  IF name \notin MacroNames \/ ~table[name].defined
    THEN [NoResult EXCEPT !.status = "undefined"]
  ELSE IF ~ArityOK(table[name], argc)
    THEN [NoResult EXCEPT !.status = "arity"]
  ELSE [status |-> "ok",
        text   |-> table[name].body,
        sym    |-> PasteSymbol(table[name].body, x),
        val    |-> ConstValue(table[name].body, kind, opt),
        decl   |-> Declares(table[name].body)]

\* the name __COMPILER_SPECIFIC(prim) expands to
SelectorTarget(table, prim) ==
  IF table["__COMPILER_SPECIFIC"].body = "GCC_ ## x" THEN Paste("GCC_", prim)
  ELSE IF table["__COMPILER_SPECIFIC"].body = "IAR_ ## x" THEN Paste("IAR_", prim)
  ELSE "none"

\* the outcome of writing __COMPILER_SPECIFIC(prim)(args)
InvokeFacade(table, prim, argc, x, kind, opt) ==
  IF ~table["__COMPILER_SPECIFIC"].defined
    THEN [NoResult EXCEPT !.status = "undefined"]
    ELSE Invoke(table, SelectorTarget(table, prim), argc, x, kind, opt)

\* the number of arguments the primitives other than the ISR declaration
\* are written with
NaturalArgs(prim) ==
  IF prim = "MEMORY_BARRIER" THEN 0
  ELSE IF prim = "WRITE_SYS_REGISTER" THEN 2
  ELSE 1

(* -------------------------------- state ------------------------------- *)

VARIABLES
  signals,        \* the predefined toolchain signals of the build
  ARCH,           \* the value of ARCH in the build
  hasIntrinsics,  \* <intrinsics.h> can be found
  marker,         \* __INCLUDE_FROM_COMMON_H is defined
  guard,          \* __LUFA_COMPILERSPEC_H__ is defined
  macros,         \* the macro table: name -> definition
  defCount,       \* name -> number of #define directives executed for it
  branches,       \* the conditional branches of the header entered so far
  diags,          \* the diagnostics emitted so far
  failed,         \* the build has failed
  pc,             \* the position of the preprocessor
  log,            \* one record per inclusion of the header
  use             \* the last use of a primitive by the translation unit

vars == <<signals, ARCH, hasIntrinsics, marker, guard, macros, defCount,
          branches, diags, failed, pc, log, use>>

build == <<signals, ARCH, hasIntrinsics>>

NoUse ==
  [prim |-> "none", argc |-> 0, arg |-> <<>>, kind |-> "none",
   gcc |-> NoResult, iar |-> NoResult, facade |-> NoResult]

Init ==
  /\ signals \in SUBSET Signals
  /\ ARCH \in Archs
  /\ hasIntrinsics \in BOOLEAN
  /\ marker = FALSE
  /\ guard = FALSE
  /\ macros = EmptyTable
  /\ defCount = [n \in MacroNames |-> 0]
  /\ branches = {}
  /\ diags = {}
  /\ failed = FALSE
  /\ pc = "idle"
  /\ log = <<>>
  /\ use = NoUse

cur == Len(log)

Enter(m) ==
  /\ pc = "idle"
  /\ Len(log) < MaxIncludes
  /\ marker' = m
  /\ log' = Append(log, [marker |-> m, guarded |-> guard, error |-> FALSE,
                         defined |-> FALSE, done |-> FALSE])
  /\ pc' = "L54"
  /\ UNCHANGED <<build, guard, macros, defCount, branches, diags, failed, use>>

\* Common.h defines __INCLUDE_FROM_COMMON_H and then includes the header
IncludeViaCommon == Enter(TRUE)

\* the translation unit includes the header itself, at a point where the
\* marker is defined (m) or not
IncludeDirect == \E m \in BOOLEAN : Enter(m)

\* variant: the test inverted
MarkerMissing_inverted(m) == m

\* #if !defined(__INCLUDE_FROM_COMMON_H)
MarkerMissing(m) == ~m

\* #ifndef __LUFA_COMPILERSPEC_H__ / #define __LUFA_COMPILERSPEC_H__
IncludeGuard ==
  /\ pc = "L54"
  /\ IF guard
       THEN pc' = "L150" /\ guard' = guard
       ELSE pc' = "L58" /\ guard' = TRUE
  /\ UNCHANGED <<build, marker, macros, defCount, branches, diags, failed,
                 log, use>>

\* #if !defined(__INCLUDE_FROM_COMMON_H) / #error ... / #endif
\* After #error the build has failed; whether the rest of the file is still
\* processed is up to the toolchain.
UmbrellaCheck ==
  /\ pc = "L58"
  /\ IF MarkerMissing(marker)
       THEN /\ diags' = diags \cup {"error: Do not include this file directly"}
            /\ failed' = TRUE
            /\ \E stop \in BOOLEAN :
                 IF stop
                   THEN /\ pc' = "halt"
                        /\ log' = [log EXCEPT ![cur].error = TRUE,
                                              ![cur].done = TRUE]
                   ELSE /\ pc' = "L64"
                        /\ log' = [log EXCEPT ![cur].error = TRUE]
       ELSE /\ pc' = "L64"
            /\ UNCHANGED <<diags, failed, log>>
  /\ UNCHANGED <<build, marker, guard, macros, defCount, branches, use>>

\* the effect of a list of #define directives on the state
Execute(defs) ==
  /\ macros' = ApplyDefs(macros, defs)
  /\ defCount' = CountDefs(defCount, defs)
  /\ diags' = diags \cup {"redefined: " \o n : n \in Redefined(macros, defs)}
  /\ log' = [log EXCEPT ![cur].defined = @ \/ defs # <<>>]

\* lines 64-104: the branch taken when GCC or Doxygen is recognized
GccRecognized ==
  /\ pc = "L64"
  /\ GccCondition(signals)
  /\ Execute(GccRecognizedDefs(signals, ARCH))
  /\ branches' = branches \cup {"GCC"}
  /\ pc' = "L117"
  /\ UNCHANGED <<build, marker, guard, failed, use>>

\* lines 105-115: the #else of the GCC branch
GccFallback ==
  /\ pc = "L64"
  /\ ~GccCondition(signals)
  /\ Execute(GccFallbackDefs)
  /\ branches' = branches \cup {"GCC_FALLBACK"}
  /\ pc' = "L117"
  /\ UNCHANGED <<build, marker, guard, failed, use>>

\* lines 117-141: the branch taken when IAR or Doxygen is recognized; it
\* starts with #include <intrinsics.h>, which ends the build when the file
\* is not found
IarRecognized ==
  /\ pc = "L117"
  /\ IarCondition(signals)
  /\ branches' = branches \cup {"IAR"}
  /\ IF hasIntrinsics
       THEN /\ Execute(IarRecognizedDefs(signals, ARCH))
            /\ pc' = "L150"
            /\ failed' = failed
       ELSE /\ diags' = diags \cup {"fatal: intrinsics.h: no such file"}
            /\ failed' = TRUE
            /\ pc' = "halt"
            /\ log' = [log EXCEPT ![cur].done = TRUE]
            /\ UNCHANGED <<macros, defCount>>
  /\ UNCHANGED <<build, marker, guard, use>>

\* lines 142-149: the #else of the IAR branch
IarFallback ==
  /\ pc = "L117"
  /\ ~IarCondition(signals)
  /\ Execute(IarFallbackDefs)
  /\ branches' = branches \cup {"IAR_FALLBACK"}
  /\ pc' = "L150"
  /\ UNCHANGED <<build, marker, guard, failed, use>>

\* line 150: the #endif of the include guard; back in the including file
EndOfHeader ==
  /\ pc = "L150"
  /\ pc' = "idle"
  /\ log' = [log EXCEPT ![cur].done = TRUE]
  /\ UNCHANGED <<build, marker, guard, macros, defCount, branches, diags,
                 failed, use>>

\* The header has been processed to its end at least once.
Processed == pc = "idle" /\ log # <<>>

\* the translation unit writes the primitive prim with argc arguments under
\* its GCC_ name, its IAR_ name and through __COMPILER_SPECIFIC
Use(prim, argc, x, kind, opt) ==
  /\ Processed
  /\ use' = [prim |-> prim, argc |-> argc, arg |-> x, kind |-> kind,
             gcc    |-> Invoke(macros, Paste("GCC_", prim), argc, x, kind, opt),
             iar    |-> Invoke(macros, Paste("IAR_", prim), argc, x, kind, opt),
             facade |-> InvokeFacade(macros, prim, argc, x, kind, opt)]
  /\ UNCHANGED <<build, marker, guard, macros, defCount, branches, diags,
                 failed, pc, log>>

UseConstQuery ==
  \E kind \in {"literal", "variable"}, opt \in BOOLEAN :
    Use("IS_COMPILE_CONST", 1, <<>>, kind, opt)

UsePartQuery ==
  \E x \in PartNames : Use("IS_PART_DEFINED", 1, x, "none", FALSE)

UseISR ==
  \E argc \in 1..MaxISRArgs : Use("ISR", argc, <<>>, "none", FALSE)

UseOther ==
  \E prim \in Primitives \ {"IS_COMPILE_CONST", "IS_PART_DEFINED", "ISR"} :
    Use(prim, NaturalArgs(prim), <<>>, "none", FALSE)

Next ==
  \/ IncludeViaCommon
  \/ IncludeDirect
  \/ IncludeGuard
  \/ UmbrellaCheck
  \/ GccRecognized
  \/ GccFallback
  \/ IarRecognized
  \/ IarFallback
  \/ EndOfHeader
  \/ UseConstQuery
  \/ UsePartQuery
  \/ UseISR
  \/ UseOther

Spec == Init /\ [][Next]_vars

TypeOK ==
  /\ signals \subseteq Signals
  /\ ARCH \in Archs
  /\ pc \in {"idle", "L54", "L58", "L64", "L117", "L150", "halt"}
  /\ Len(log) <= MaxIncludes

(* ------------------------------ properties ---------------------------- *)

\* A family is active when its recognized branch has been entered; the
\* Fallback Family is active when both #else branches have been.
ActiveFamilies ==
  (IF "GCC" \in branches THEN {"GCC"} ELSE {})
    \cup (IF "IAR" \in branches THEN {"IAR"} ELSE {})
    \cup (IF {"GCC_FALLBACK", "IAR_FALLBACK"} \subseteq branches
            THEN {"Fallback"} ELSE {})

Ambiguous(sig) ==
  "__DOXYGEN__" \in sig \/ {"__GNUC__", "__ICCAVR32__"} \subseteq sig

\* C1 as stated: for every combination of the signals exactly one family is
\* active after the header is processed, the Fallback Family when no signal
\* is defined.
C1_Original ==
  Processed =>
    /\ Cardinality(ActiveFamilies) = 1
    /\ (signals = {} => ActiveFamilies = {"Fallback"})

\* C1 as amended: at least one family is always active; exactly one is
\* active unless __DOXYGEN__ is defined or __GNUC__ and __ICCAVR32__ both
\* are, and then the GCC and the IAR family are both active; with no signal
\* defined the active family is the Fallback Family.
C1_ActiveFamilies ==
  Processed =>
    /\ ActiveFamilies # {}
    /\ (Cardinality(ActiveFamilies) = 1 <=> ~Ambiguous(signals))
    /\ (Ambiguous(signals) => ActiveFamilies = {"GCC", "IAR"})
    /\ (signals = {} => ActiveFamilies = {"Fallback"})

C1_Witness ==
  /\ Processed
  /\ signals = {"__GNUC__", "__ICCAVR32__"}
  /\ ActiveFamilies = {"GCC", "IAR"}

\* C2 as stated: after the header is processed through Common.h with a
\* recognized ARCH, each of the nine primitives is defined under its GCC_
\* name and under its IAR_ name, whichever branches were taken.
C2_Claim ==
  (Processed /\ log[1].marker /\ ARCH \in RecognizedArchs) =>
    \A f \in Prefixes, p \in Primitives : macros[Paste(f, p)].defined

\* the prefixes of the family the selector is to resolve to
SelectedPrefixes ==
  IF ActiveFamilies = {"GCC"} THEN {"GCC_"}
  ELSE IF ActiveFamilies = {"IAR"} THEN {"IAR_"}
  ELSE IF ActiveFamilies = {"Fallback"} THEN {"GCC_", "IAR_"}
  ELSE {}

\* C3 as stated: in every build __COMPILER_SPECIFIC is defined, by exactly
\* one #define, and maps every primitive to the implementation of the
\* selected family.
C3_Claim ==
  (Processed /\ log[1].marker) =>
    /\ macros["__COMPILER_SPECIFIC"].defined
    /\ defCount["__COMPILER_SPECIFIC"] = 1
    /\ \A p \in Primitives :
         \E f \in SelectedPrefixes :
           /\ SelectorTarget(macros, p) = Paste(f, p)
           /\ macros[Paste(f, p)].defined

DirectError == "error: Do not include this file directly"

\* C4 as stated: every inclusion made while __INCLUDE_FROM_COMMON_H is not
\* defined fails the build with the diagnostic, also one that follows a
\* successful inclusion through Common.h, and defines nothing in a build
\* that goes on.
C4_Original ==
  \A i \in DOMAIN log :
    (log[i].done /\ ~log[i].marker) =>
      /\ failed
      /\ DirectError \in diags
      /\ (log[i].defined => failed)

\* C4 as amended: an inclusion made while the marker is not defined fails
\* the build with the diagnostic when the include guard is not yet defined;
\* when the guard is already defined it is skipped, with no diagnostic and
\* no definition; either way it defines nothing in a build that goes on.
C4_DirectInclusion ==
  \A i \in DOMAIN log :
    (log[i].done /\ ~log[i].marker) =>
      /\ (IF log[i].guarded
            THEN ~log[i].error /\ ~log[i].defined
            ELSE log[i].error /\ failed /\ DirectError \in diags)
      /\ (log[i].defined => failed)

C4_Witness ==
  /\ Len(log) = 2
  /\ log[1].done /\ ~log[1].marker /\ ~log[1].guarded /\ log[1].error
  /\ log[2].done /\ ~log[2].marker /\ log[2].guarded

\* C5: the constant-fold query of a literal is true where the recognized
\* GCC branch defined it, and the query of any argument is false where the
\* #else branch defined it.
C5_ConstQuery ==
  use.prim = "IS_COMPILE_CONST" =>
    /\ ("GCC" \in branches /\ use.kind = "literal" =>
          use.gcc.status = "ok" /\ use.gcc.val = "true")
    /\ ("GCC_FALLBACK" \in branches =>
          use.gcc.status = "ok" /\ use.gcc.val = "false")

C5_Witness ==
  /\ use.prim = "IS_COMPILE_CONST"
  /\ use.kind = "literal"
  /\ signals = {"__GNUC__"}
  /\ use.gcc.val = "true"

\* the macro table of a build with the same signals and ARCH = arch
TableOf(sig, arch) ==
  ApplyDefs(ApplyDefs(EmptyTable, GccBranchDefs(sig, arch)),
            IarBranchDefs(sig, arch))

\* the symbol the part query of the family names in that other build
SymbolIn(arch, prefix, x) ==
  Invoke(TableOf(signals, arch), Paste(prefix, "IS_PART_DEFINED"), 1, x,
         "none", FALSE).sym

\* C6 as stated: in a recognized family the part query names a different
\* symbol for the same part under any two distinct recognized architectures.
C6_Original ==
  (use.prim = "IS_PART_DEFINED" /\ log[1].marker /\ ARCH \in RecognizedArchs) =>
    \A a \in RecognizedArchs \ {ARCH} :
      /\ ("GCC" \in branches => use.gcc.sym # SymbolIn(a, "GCC_", use.arg))
      /\ ("IAR" \in branches => use.iar.sym # SymbolIn(a, "IAR_", use.arg))

\* C6 as amended: the two symbols differ exactly when one of the two
\* architectures is UC3; AVR and XMEGA share one naming convention.
C6_PartSymbols ==
  (use.prim = "IS_PART_DEFINED" /\ log[1].marker /\ ARCH \in RecognizedArchs) =>
    \A a \in RecognizedArchs \ {ARCH} :
      /\ ("GCC" \in branches =>
            ((use.gcc.sym # SymbolIn(a, "GCC_", use.arg))
               <=> ((ARCH = "ARCH_UC3") # (a = "ARCH_UC3"))))
      /\ ("IAR" \in branches =>
            ((use.iar.sym # SymbolIn(a, "IAR_", use.arg))
               <=> ((ARCH = "ARCH_UC3") # (a = "ARCH_UC3"))))

C6_Witness ==
  /\ use.prim = "IS_PART_DEFINED"
  /\ log[1].marker
  /\ ARCH = "ARCH_UC3"
  /\ {"GCC", "IAR"} \subseteq branches
  /\ use.gcc.status = "ok" /\ use.iar.status = "ok"
  /\ use.gcc.sym # SymbolIn("ARCH_AVR", "GCC_", use.arg)
  /\ Len(use.arg) = MaxPartLen

\* C7: where the recognized IAR branch defined IAR_ISR, an invocation with
\* the routine name alone is rejected; where the recognized GCC branch
\* defined GCC_ISR, the same invocation is accepted and declares a function
\* taking no arguments and returning nothing.
C7_IsrSignatures ==
  (use.prim = "ISR" /\ use.argc = 1) =>
    /\ ("IAR" \in branches => use.iar.status = "arity")
    /\ ("GCC" \in branches =>
          use.gcc.status = "ok" /\ use.gcc.decl = "void Name (void)")

C7_Witness ==
  /\ use.prim = "ISR"
  /\ use.argc = 1
  /\ {"GCC", "IAR"} \subseteq branches
  /\ use.iar.status = "arity"
  /\ use.gcc.status = "ok"

\* C8: with no toolchain signal defined, processing the header through
\* Common.h emits no diagnostic and selects the Fallback Family, whatever
\* ARCH is.
C8_SilentFallback ==
  (Processed /\ log[1].marker /\ signals = {}) =>
    /\ diags = {}
    /\ ~failed
    /\ ActiveFamilies = {"Fallback"}

C8_Witness ==
  /\ Processed
  /\ log[1].marker
  /\ signals = {}
  /\ ARCH = "ARCH_OTHER"
  /\ ActiveFamilies = {"Fallback"}
  /\ diags = {}

\* C10: where a recognized branch was taken and ARCH is none of the three
\* recognized values, the part query of that family has no definition;
\* where the #else branch of a family was taken, its part query is defined
\* as 0 whatever ARCH is.
C10_PartUndefined ==
  Processed =>
    /\ ("GCC" \in branches /\ ARCH \notin RecognizedArchs =>
          ~macros["GCC_IS_PART_DEFINED"].defined)
    /\ ("IAR" \in branches /\ ARCH \notin RecognizedArchs =>
          ~macros["IAR_IS_PART_DEFINED"].defined)
    /\ ("GCC_FALLBACK" \in branches =>
          macros["GCC_IS_PART_DEFINED"] = Macro(1, FALSE, "0"))
    /\ ("IAR_FALLBACK" \in branches =>
          macros["IAR_IS_PART_DEFINED"] = Macro(1, FALSE, "0"))

C10_Witness ==
  /\ Processed
  /\ ARCH = "ARCH_OTHER"
  /\ signals = {"__ICCAVR32__"}
  /\ ~macros["IAR_IS_PART_DEFINED"].defined
  /\ macros["GCC_IS_PART_DEFINED"].body = "0"

====
